---- MODULE Spec2Model ----
(***************************************************************************)
(* Gaze-driven sidebar control: the dwell/zone state machine, the          *)
(* calibration gate, the liveness watchdog and the signal filter of the    *)
(* two content scripts of the repository:                                  *)
(*   - the WebSocket (Python server) variant, src/start_server.bat         *)
(*   - the WebGazer variant, src/popup.js                                  *)
(* Times are integer milliseconds, positions integer pixels.               *)
(***************************************************************************)
EXTENDS Integers, Sequences, FiniteSets, TLC

VARIABLES
    variant,          \* "python" (start_server.bat) or "webgazer" (popup.js)
    now,              \* performance.now() / Date.now(), ms
    innerWidth,       \* window.innerWidth
    innerHeight,      \* window.innerHeight
    hidden,           \* document.hidden
    setup,            \* position of setup()'s chain of timers
    setupAt,          \* deadline of the pending setup timer
    isActive,         \* state.isActive
    isScrolling,      \* state.isScrolling
    scrollDirection,  \* state.scrollDirection
    scrollIntervalId, \* state.scrollIntervalId (TRUE: an interval timer is referenced)
    scrollTimers,     \* number of setInterval scroll timers not cleared yet
    currentZone,      \* state.currentZone
    pendingZone,      \* state.pendingZone
    zoneSwitchTime,   \* state.zoneSwitchTime
    dwellStartTime,   \* state.dwellStartTime
    wsState,          \* state.ws and its readyState
    isConnected,      \* state.isConnected
    reconnectTimer,   \* state.reconnectTimer: deadline of the referenced timer
    connectTimers,    \* deadlines of all pending setTimeout(connectToServer)
    gazeX, gazeY,     \* state.gazeX / gazeY
    displayX, displayY, \* state.displayX / displayY
    animationFrameId, \* TRUE while a requestAnimationFrame callback is pending
    isCalibrated,     \* state.isCalibrated
    calibrationClicks,\* state.calibrationClicks
    stored,           \* localStorage[STORAGE_KEY] === 'true'
    overlay,          \* the calibration overlay element is in the document
    dotClicks,        \* dotClicks of the overlay's closure
    finishTimers,     \* deadlines of pending setTimeout(finishCalibration, 500)
    removeTimers,     \* deadlines of pending setTimeout(overlay.remove, 500)
    resumeTimers,     \* deadlines of pending kill-switch resume timers
    filteredX, filteredY,   \* state.filteredX / filteredY (popup.js)
    lastRawX, lastRawY,     \* state.lastRawX / lastRawY
    lastTimestamp,    \* state.lastTimestamp
    velocityX, velocityY,   \* state.velocityX / velocityY, px/s
    kalmanX, kalmanY, \* state.kalmanX / kalmanY: [x, p], p in hundredths
    gazeBuffer,       \* state.gazeBuffer
    isWebGazerReady,  \* state.isWebGazerReady
    lastGazeTime,     \* state.lastGazeTime
    watchdogAt,       \* next firing of the setInterval of state.watchdogId
    recoverTimers,    \* deadlines of pending setTimeout(resume, 500) of recoverWebGazer
    initTimers,       \* deadlines of pending setTimeout(initWebGazer, 1000) of recoverWebGazer
    webgazer,         \* the WebGazer library: "off", "running", "paused" or "ended"
    carried,          \* the gate was Done when the previous session ended, and
                      \* has not been reset since (observation only)
    wiped,            \* a calibration_reset was received and the gate has not been
                      \* made Done or recalibrated since (observation only)
    wd,               \* samples and recoveries seen by the watchdog (observation only)
    obs,              \* what the last step did (observation only)
    run,              \* the current run of evaluated ticks resolving to one zone (observation only)
    flick             \* a one-tick departure from the current zone (observation only)

\* ------------------------------------------------------------------ values
NULL == "null"
UNDEFINED == "undefined"
NoTime == -1
NoPos == -99999

\* ---------------------------------------------------------- CONFIG (both)
SIDEBAR_WIDTH == 140
ZONE_COUNT == 5
ZONE_SWITCH_DELAY == 100
CALIBRATION_POINTS == 9
ZONES == <<"SCROLL_UP", "SCROLL_DOWN", "MEDIA", "ASK_AI", "KILL_SWITCH">>
KILL_SWITCH_PAUSE == 3000
FINISH_DELAY == 500
OVERLAY_FADE == 500

\* ------------------------------------------------ CONFIG (start_server.bat)
RECONNECT_INTERVAL == 3000
DWELL_TIME_PY == 600
CLICKS_PER_POINT_PY == 2
CURSOR_SMOOTHING_PCT == 15
SETUP_CONNECT_DELAY == 500
SETUP_OVERLAY_DELAY_PY == 2000

\* ------------------------------------------------------- CONFIG (popup.js)
DWELL_TIME_WG == 650
CLICKS_PER_POINT_WG == 3
LERP_MARGIN_PCT == 8
VELOCITY_THRESHOLD == 1200
MIN_CONFIDENCE_PCT == 30
OUTLIER_THRESHOLD == 200
WATCHDOG_INTERVAL == 3000
WATCHDOG_TIMEOUT == 5000
RECOVER_RESUME_DELAY == 500
RECOVER_INIT_DELAY == 1000
SETUP_INIT_DELAY == 500
SETUP_OVERLAY_DELAY_WG == 1500

DWELL_TIME == IF variant = "python" THEN DWELL_TIME_PY ELSE DWELL_TIME_WG
CLICKS_PER_POINT == IF variant = "python" THEN CLICKS_PER_POINT_PY ELSE CLICKS_PER_POINT_WG

ZoneIds == {ZONES[i] : i \in 1..ZONE_COUNT}

\* ------------------------------------------------------------------ bounds
MaxTime == 4000
MaxTimeWG == 13000

\* the horizon up to which time is let pass
Horizon == IF variant = "python" THEN MaxTime ELSE MaxTimeWG

\* ----------------------------------------------------------------- helpers
Min(a, b) == IF a <= b THEN a ELSE b
Max(a, b) == IF a >= b THEN a ELSE b

\* integer quotient rounded to the nearest integer
RoundDiv(a, b) == IF a >= 0 THEN (2 * a + b) \div (2 * b) ELSE -((2 * (-a) + b) \div (2 * b))

\* a JavaScript value used as a condition
Truthy(z) == z \in ZoneIds

\* null coerced to a number in "performance.now() - null"
Num(t) == IF t = NoTime THEN 0 ELSE t

\* -------------------------------------------------------- zone detection
\* a getZoneFromY() that rounds the index up
GetZoneFromYCeil(y) ==
    LET zoneIndex == (y * ZONE_COUNT + innerHeight - 1) \div innerHeight
        i == Min(zoneIndex, ZONE_COUNT - 1)
    IN IF i >= 0 THEN ZONES[i + 1] ELSE UNDEFINED

\* Math.floor(y / (innerHeight / ZONE_COUNT)), then ZONES[Math.min(index, ZONE_COUNT - 1)]:
\* an index below 0 reads outside the array and yields undefined.
GetZoneFromY(y) ==
    LET zoneIndex == (y * ZONE_COUNT) \div innerHeight
        i == Min(zoneIndex, ZONE_COUNT - 1)
    IN IF i >= 0 THEN ZONES[i + 1] ELSE UNDEFINED

IsInSidebar(x) == x >= innerWidth - SIDEBAR_WIDTH

\* "performance.now() - state.zoneSwitchTime >= CONFIG.ZONE_SWITCH_DELAY"
SwitchDue(t) == t - Num(zoneSwitchTime) >= ZONE_SWITCH_DELAY

\* a dwell that would be complete after half of DWELL_TIME
DwellDueHalf(ds, t) == t - Num(ds) >= DWELL_TIME \div 2

\* "dwellDuration >= CONFIG.DWELL_TIME" for a dwell started at ds
DwellDue(ds, t) == t - Num(ds) >= DWELL_TIME

\* a switch that would be committed by the first tick resolving to another zone
CommitsAtOnce(inside, differs, fresh, t) == inside /\ differs

\* the zone switch is committed: the resolved zone is not the current one, it
\* is the pending one (not fresh) and the delay has elapsed
Commits(inside, differs, fresh, t) == inside /\ differs /\ ~fresh /\ SwitchDue(t)

\* the strip is left with a current zone: the else branch clears the state
Leaves(inside) == ~inside /\ Truthy(currentZone)

\* a candidate that would be kept when it is committed or the gaze returns
PendingKept(inside, differs, fresh, commit, leave, zone) ==
    IF inside /\ fresh THEN zone ELSE pendingZone

\* state.pendingZone after the tick
PendingAfter(inside, differs, fresh, commit, leave, zone) ==
    IF inside
      THEN IF ~differs THEN NULL
           ELSE IF fresh THEN zone
           ELSE IF commit THEN NULL ELSE pendingZone
      ELSE IF leave THEN NULL ELSE pendingZone

\* a dwell clock that a switch to another zone would leave running
DwellStartKept(commit, leave, t) ==
    IF leave THEN NoTime
    ELSE IF commit /\ dwellStartTime = NoTime THEN t ELSE dwellStartTime

\* state.dwellStartTime after the hysteresis block: a commit restarts it, the
\* else branch of the isInSidebar test clears it
DwellStartAfter(commit, leave, t) ==
    IF commit THEN t ELSE IF leave THEN NoTime ELSE dwellStartTime

\* updateZoneFromGaze / updateGazePosition from the isInSidebar test on, as a
\* function of the state before and the time t read by performance.now().
UpdateZone(x, y, t) ==
    LET inside == IsInSidebar(x)
        zone == GetZoneFromY(y)
        differs == zone # currentZone
        fresh == differs /\ zone # pendingZone
        commit == Commits(inside, differs, fresh, t)
        leave == Leaves(inside)
        cz == IF commit THEN zone ELSE IF leave THEN NULL ELSE currentZone
        pz == PendingAfter(inside, differs, fresh, commit, leave, zone)
        zst == IF inside /\ fresh THEN t ELSE zoneSwitchTime
        ds0 == DwellStartAfter(commit, leave, t)
        fire == inside /\ Truthy(cz) /\ DwellDue(ds0, t)
    IN [ inside |-> inside, zone |-> zone, commit |-> commit, leave |-> leave,
         currentZone |-> cz, pendingZone |-> pz, zoneSwitchTime |-> zst,
         dwellStartTime |-> IF fire THEN t ELSE ds0,
         fired |-> IF fire THEN cz ELSE NULL,
         stop |-> commit \/ leave ]

\* --------------------------------------------------------- observations
NoObs == [tick |-> FALSE, resolved |-> "-", commit |-> FALSE, fired |-> NULL, src |-> "-",
          recover |-> FALSE, sent |-> "-", ack |-> "-"]
NoRun == [zone |-> "-", since |-> NoTime, last |-> NoTime, idle |-> FALSE, steady |-> FALSE, acts |-> 0,
          commitAt |-> NoTime, from |-> NULL]

\* what an evaluated tick at time t with result r (of UpdateZone) is recorded as
TickObs(r) ==
    [tick |-> TRUE, resolved |-> IF r.inside THEN r.zone ELSE "out",
     commit |-> r.commit, fired |-> r.fired, src |-> IF r.fired # NULL THEN "dwell" ELSE "-",
     recover |-> FALSE, sent |-> "-", ack |-> "-"]

\* the run of consecutive evaluated ticks that resolved to the same zone;
\* commitAt is the time the current zone was committed at, from the zone that
\* was current before that commit
TickRun(r, t) ==
    LET z == IF r.inside THEN r.zone ELSE "out"
        n == IF r.fired # NULL THEN 1 ELSE 0
        c == IF r.commit THEN t ELSE IF r.leave THEN NoTime ELSE run.commitAt
        f == IF r.commit THEN currentZone ELSE IF r.leave THEN NULL ELSE run.from
    IN IF z = run.zone
         THEN [run EXCEPT !.last = t, !.acts = @ + n,
                          !.steady = @ /\ t - run.last < ZONE_SWITCH_DELAY,
                          !.commitAt = c, !.from = f]
         ELSE [zone |-> z, since |-> t, last |-> t,
               idle |-> currentZone = NULL /\ pendingZone = NULL,
               steady |-> TRUE, acts |-> n, commitAt |-> c, from |-> f]

\* a one-tick flicker: with the current zone c resolved by the last tick, a tick
\* at time "at" resolves to another zone ("away"), and the next tick ("back") to c again
NoFlick == [stage |-> "-", c |-> NULL, ds |-> NoTime, at |-> NoTime, gap |-> 0]

TickFlick(r, t) ==
    LET z == IF r.inside THEN r.zone ELSE "out"
    IN IF flick.stage = "away" /\ z = flick.c
         THEN [flick EXCEPT !.stage = "back", !.gap = Max(@, t - flick.at)]
         ELSE IF Truthy(currentZone) /\ run.zone = currentZone /\ r.inside /\ z # currentZone
           THEN [stage |-> "away", c |-> currentZone, ds |-> dwellStartTime, at |-> t,
                 gap |-> t - run.last]
           ELSE NoFlick

\* ------------------------------------------------------------ variable groups
histVars == <<run, flick>>
filterVars == <<filteredX, filteredY, lastRawX, lastRawY, lastTimestamp, velocityX, velocityY,
                kalmanX, kalmanY, gazeBuffer>>
watchVars == <<isWebGazerReady, lastGazeTime, watchdogAt, recoverTimers, initTimers, webgazer, wd>>
webgazerVars == <<filterVars, watchVars>>
zoneVars == <<currentZone, pendingZone, zoneSwitchTime, dwellStartTime>>
scrollVars == <<isScrolling, scrollDirection, scrollIntervalId, scrollTimers>>
killVars == <<isActive, resumeTimers>>
connVars == <<wsState, isConnected, reconnectTimer, connectTimers>>
gazeVars == <<gazeX, gazeY, displayX, displayY>>
calVars == <<isCalibrated, calibrationClicks, stored, overlay, dotClicks, finishTimers, removeTimers>>
envVars == <<variant, innerWidth, innerHeight>>
pastVars == <<carried, wiped>>
setupVars == <<setup, setupAt>>
vars == <<envVars, pastVars, webgazerVars, now, hidden, setupVars, killVars, scrollVars, zoneVars, connVars,
          gazeVars, animationFrameId, calVars, obs, histVars>>

\* ------------------------------------------------------------------ timers
Deadlines ==
    (IF setupAt = NoTime THEN {} ELSE {setupAt})
        \cup connectTimers \cup finishTimers \cup removeTimers \cup resumeTimers
        \cup (IF watchdogAt = NoTime THEN {} ELSE {watchdogAt})
        \cup recoverTimers \cup initTimers

\* a timer whose delay has elapsed runs before more time passes
TimerDue == \E t \in Deadlines : t <= now

\* ---------------------------------------------------------- zone actions
\* stopScrolling(): popup.js also clears scrollDirection
StopScrolling ==
    /\ scrollIntervalId' = FALSE
    /\ scrollTimers' = IF scrollIntervalId THEN scrollTimers - 1 ELSE scrollTimers
    /\ isScrolling' = FALSE
    /\ scrollDirection' = IF variant = "webgazer" THEN NULL ELSE scrollDirection

\* handleZoneAction(zone) run at time t, after stopScrolling() when stopFirst.
\* SCROLL_UP, SCROLL_DOWN, MEDIA and ASK_AI act on the page only.
HandleZoneAction(zone, t, stopFirst) ==
    IF zone = "KILL_SWITCH"
      THEN /\ StopScrolling
           /\ isActive' = FALSE
           /\ resumeTimers' = resumeTimers \cup {t + KILL_SWITCH_PAUSE}
      ELSE /\ IF stopFirst THEN StopScrolling ELSE UNCHANGED scrollVars
           /\ UNCHANGED killVars

\* updateZoneFromGaze(x, y) / the zone part of updateGazePosition(x, y) at time t
UpdateZoneFromGaze(x, y, t) ==
    LET r == UpdateZone(x, y, t)
    IN /\ currentZone' = r.currentZone
       /\ pendingZone' = r.pendingZone
       /\ zoneSwitchTime' = r.zoneSwitchTime
       /\ dwellStartTime' = r.dwellStartTime
       /\ IF r.fired # NULL
            THEN HandleZoneAction(r.fired, t, r.stop)
            ELSE /\ IF r.stop THEN StopScrolling ELSE UNCHANGED scrollVars
                 /\ UNCHANGED killVars
       /\ obs' = TickObs(r)
       /\ run' = TickRun(r, t)
       /\ flick' = TickFlick(r, t)

\* the timer armed by handleZoneAction('KILL_SWITCH')
ResumeTimer ==
    /\ \E t \in resumeTimers :
         /\ t <= now
         /\ resumeTimers' = resumeTimers \ {t}
    /\ isActive' = TRUE
    /\ obs' = [NoObs EXCEPT !.src = "resume"]
    /\ UNCHANGED <<envVars, pastVars, webgazerVars, now, hidden, setupVars, scrollVars, zoneVars, connVars,
                   gazeVars, animationFrameId, calVars, histVars>>

\* the click listener of a sidebar zone
ZoneClick(zone) ==
    /\ setup # "none"
    /\ HandleZoneAction(zone, now, FALSE)
    /\ obs' = [NoObs EXCEPT !.fired = zone, !.src = "click"]
    /\ UNCHANGED <<envVars, pastVars, webgazerVars, now, hidden, setupVars, zoneVars, connVars,
                   gazeVars, animationFrameId, calVars, histVars>>

\* ------------------------------------------------------------ calibration
Dots == 1..CALIBRATION_POINTS
ZeroClicks == [i \in Dots |-> 0]

\* a finishCalibration() that would not persist the flag
FinishCalibrationUnsaved ==
    /\ isCalibrated' = TRUE
    /\ wiped' = FALSE
    /\ removeTimers' = IF overlay /\ removeTimers = {}
                         THEN {now + OVERLAY_FADE} ELSE removeTimers
    /\ UNCHANGED <<calibrationClicks, stored, overlay, dotClicks>>

\* finishCalibration(). Of the removal timers of one overlay only the earliest
\* is kept: the later ones find the element already removed.
FinishCalibration ==
    /\ isCalibrated' = TRUE
    /\ wiped' = FALSE
    /\ stored' = TRUE
    /\ removeTimers' = IF overlay /\ removeTimers = {}
                         THEN {now + OVERLAY_FADE} ELSE removeTimers
    /\ UNCHANGED <<calibrationClicks, overlay, dotClicks>>

\* createCalibrationOverlay() after resetNow: the persisted flag cleared just before
CreateCalibrationOverlay(flag, calibrated) ==
    IF flag
      THEN /\ isCalibrated' = TRUE
           /\ UNCHANGED <<overlay, dotClicks, removeTimers>>
      ELSE /\ isCalibrated' = calibrated
           /\ overlay' = TRUE
           /\ dotClicks' = ZeroClicks
           /\ removeTimers' = {}

\* the click listener of the skip button
SkipClick ==
    /\ overlay
    /\ FinishCalibration
    /\ obs' = NoObs
    /\ UNCHANGED <<envVars, carried, webgazerVars, now, hidden, setupVars, killVars, scrollVars, zoneVars, connVars,
                   gazeVars, animationFrameId, finishTimers, histVars>>

\* setTimeout(() => overlay.remove(), 500) of finishCalibration
RemoveTimer ==
    /\ \E t \in removeTimers :
         /\ t <= now
         /\ removeTimers' = removeTimers \ {t}
    /\ overlay' = FALSE
    /\ obs' = NoObs
    /\ UNCHANGED <<envVars, pastVars, webgazerVars, now, hidden, setupVars, killVars, scrollVars, zoneVars, connVars,
                   gazeVars, animationFrameId, isCalibrated, calibrationClicks, stored,
                   dotClicks, finishTimers, histVars>>

\* "dotClicks[index] >= CONFIG.CLICKS_PER_POINT"
PointComplete(n) == n >= CLICKS_PER_POINT

\* what the dot click listener tells the upstream collaborator:
\* sendCalibrationPoint() over an open socket, webgazer.recordScreenPosition() in popup.js
PointSent ==
    IF variant = "python"
      THEN IF wsState = "OPEN" THEN "calibration_point" ELSE "-"
      ELSE "recordScreenPosition"

\* the click listener of calibration dot i; a complete dot takes no more
\* clicks (pointer-events: none)
DotClick(i) ==
    /\ overlay
    /\ ~PointComplete(dotClicks[i])
    /\ dotClicks' = [dotClicks EXCEPT ![i] = @ + 1]
    /\ IF PointComplete(dotClicks'[i])
         THEN /\ calibrationClicks' = calibrationClicks + 1
              /\ finishTimers' = IF calibrationClicks' >= CALIBRATION_POINTS
                                   THEN finishTimers \cup {now + FINISH_DELAY}
                                   ELSE finishTimers
         ELSE UNCHANGED <<calibrationClicks, finishTimers>>
    /\ obs' = [NoObs EXCEPT !.src = "dot", !.sent = PointSent]
    /\ UNCHANGED <<envVars, pastVars, webgazerVars, now, hidden, setupVars, killVars, scrollVars, zoneVars, connVars,
                   gazeVars, animationFrameId, isCalibrated, stored, overlay, removeTimers, histVars>>

\* setTimeout(() => finishCalibration(), 500) of the dot click listener
FinishTimer ==
    /\ \E t \in finishTimers :
         /\ t <= now
         /\ finishTimers' = finishTimers \ {t}
    /\ FinishCalibration
    /\ obs' = [NoObs EXCEPT !.src = "finish"]
    /\ UNCHANGED <<envVars, carried, webgazerVars, now, hidden, setupVars, killVars, scrollVars, zoneVars, connVars,
                   gazeVars, animationFrameId, histVars>>

\* what resetCalibration() tells the upstream collaborator: reset_calibration
\* over an open socket, webgazer.clearData() in popup.js
ResetSent ==
    IF variant = "python"
      THEN IF wsState = "OPEN" THEN "reset_calibration" ELSE "-"
      ELSE "clearData"

\* the recalibrate button: resetCalibration(), [state reset,] createCalibrationOverlay()
RecalibrateClick ==
    /\ IF variant = "python" THEN setup # "none" ELSE setup = "done"
    /\ calibrationClicks' = 0
    /\ stored' = FALSE
    /\ CreateCalibrationOverlay(FALSE, FALSE)
    /\ obs' = [NoObs EXCEPT !.src = "recalibrate", !.sent = ResetSent]
    /\ wd' = [wd EXCEPT !.accepted = NoTime, !.helped = 0]
    /\ carried' = FALSE /\ wiped' = FALSE
    /\ UNCHANGED <<envVars, filterVars, isWebGazerReady, lastGazeTime, watchdogAt, recoverTimers,
                   initTimers, webgazer, now, hidden, setupVars, killVars, scrollVars, zoneVars, connVars,
                   gazeVars, animationFrameId, finishTimers, histVars>>

\* ------------------------------------------------- WebSocket connection
\* a connectToServer() whose catch block would not schedule another attempt
ConnectToServerGivesUp(throws, pending) ==
    IF wsState = "OPEN" \/ throws
      THEN /\ connectTimers' = pending
           /\ UNCHANGED <<wsState, reconnectTimer>>
      ELSE /\ wsState' = "CONNECTING"
           /\ connectTimers' = pending
           /\ UNCHANGED reconnectTimer

\* connectToServer(): throws is whether "new WebSocket" throws, pending the
\* connect timers still pending when it runs
ConnectToServer(throws, pending) ==
    IF wsState = "OPEN"
      THEN /\ connectTimers' = pending
           /\ UNCHANGED <<wsState, reconnectTimer>>
      ELSE IF throws
        THEN /\ reconnectTimer' = now + RECONNECT_INTERVAL
             /\ connectTimers' = pending \cup {now + RECONNECT_INTERVAL}
             /\ UNCHANGED wsState
        ELSE /\ wsState' = "CONNECTING"
             /\ connectTimers' = pending
             /\ UNCHANGED reconnectTimer

\* state.ws.onopen
WsOpen ==
    /\ wsState = "CONNECTING"
    /\ wsState' = "OPEN"
    /\ isConnected' = TRUE
    /\ obs' = NoObs
    /\ UNCHANGED <<envVars, pastVars, webgazerVars, now, hidden, setupVars, killVars, scrollVars, zoneVars,
                   reconnectTimer, connectTimers, gazeVars, animationFrameId, calVars, histVars>>

\* state.ws.onclose, of a socket that was open or that failed to connect
WsClose ==
    /\ wsState \in {"CONNECTING", "OPEN"}
    /\ wsState' = "CLOSED"
    /\ isConnected' = FALSE
    /\ reconnectTimer' = now + RECONNECT_INTERVAL
    /\ connectTimers' = (connectTimers \ {reconnectTimer}) \cup {now + RECONNECT_INTERVAL}
    /\ obs' = NoObs
    /\ UNCHANGED <<envVars, pastVars, webgazerVars, now, hidden, setupVars, killVars, scrollVars, zoneVars,
                   gazeVars, animationFrameId, calVars, histVars>>

\* setTimeout(connectToServer, RECONNECT_INTERVAL)
ReconnectTimer ==
    /\ \E t \in connectTimers :
         /\ t <= now
         /\ ConnectToServer(FALSE, connectTimers \ {t})
    /\ obs' = NoObs
    /\ UNCHANGED <<envVars, pastVars, webgazerVars, now, hidden, setupVars, killVars, scrollVars, zoneVars,
                   isConnected, gazeVars, animationFrameId, calVars, histVars>>

\* handleServerMessage({type: 'gaze', x, y}); updateGazePosition only sets the target again
ServerGaze(x, y) ==
    /\ wsState = "OPEN"
    /\ IF isActive /\ isCalibrated
         THEN gazeX' = x /\ gazeY' = y
         ELSE UNCHANGED <<gazeX, gazeY>>
    /\ obs' = NoObs
    /\ UNCHANGED <<envVars, pastVars, webgazerVars, now, hidden, setupVars, killVars, scrollVars, zoneVars, connVars,
                   displayX, displayY, animationFrameId, calVars, histVars>>

\* A calibration_ack handler that finishes the calibration whatever is_calibrated says.
ServerCalibrationAckAlways(is_calibrated) ==
    /\ wsState = "OPEN"
    /\ FinishCalibration
    /\ finishTimers' = finishTimers
    /\ obs' = [NoObs EXCEPT !.src = "calibration_ack", !.ack = IF is_calibrated THEN "true" ELSE "false"]
    /\ UNCHANGED <<envVars, carried, webgazerVars, now, hidden, setupVars, killVars, scrollVars, zoneVars, connVars,
                   gazeVars, animationFrameId, histVars>>

\* handleServerMessage({type: 'calibration_ack', is_calibrated})
ServerCalibrationAck(is_calibrated) ==
    /\ wsState = "OPEN"
    /\ IF is_calibrated THEN FinishCalibration ELSE UNCHANGED <<calVars, wiped>>
    /\ finishTimers' = finishTimers
    /\ obs' = [NoObs EXCEPT !.src = "calibration_ack", !.ack = IF is_calibrated THEN "true" ELSE "false"]
    /\ UNCHANGED <<envVars, carried, webgazerVars, now, hidden, setupVars, killVars, scrollVars, zoneVars, connVars,
                   gazeVars, animationFrameId, histVars>>

\* handleServerMessage({type: 'calibration_reset'})
ServerCalibrationReset ==
    /\ wsState = "OPEN"
    /\ isCalibrated' = FALSE
    /\ calibrationClicks' = 0
    /\ wiped' = TRUE
    /\ obs' = [NoObs EXCEPT !.src = "calibration_reset"]
    /\ UNCHANGED <<envVars, carried, webgazerVars, now, hidden, setupVars, killVars, scrollVars, zoneVars, connVars,
                   gazeVars, animationFrameId, stored, overlay, dotClicks, finishTimers,
                   removeTimers, histVars>>

\* ------------------------------------------------------ cursor animation
\* display += (gaze - display) * CONFIG.CURSOR_SMOOTHING, kept to whole pixels
Smooth(display, gaze) == display + RoundDiv((gaze - display) * CURSOR_SMOOTHING_PCT, 100)

\* one requestAnimationFrame callback of startCursorAnimation, d ms after the last step
Animate(d) ==
    /\ variant = "python"
    /\ animationFrameId
    /\ ~TimerDue
    /\ now + d <= Horizon
    /\ now' = now + d
    /\ IF gazeX = NoPos \/ gazeY = NoPos
         THEN /\ obs' = NoObs
              /\ UNCHANGED <<displayX, displayY, zoneVars, scrollVars, killVars, histVars>>
         ELSE LET dx == IF displayX = NoPos THEN gazeX ELSE displayX
                  dy == IF displayX = NoPos THEN gazeY ELSE displayY
              IN /\ displayX' = Smooth(dx, gazeX)
                 /\ displayY' = Smooth(dy, gazeY)
                 /\ UpdateZoneFromGaze(displayX', displayY', now')
    /\ UNCHANGED <<envVars, pastVars, webgazerVars, hidden, setupVars, connVars, gazeX, gazeY, animationFrameId, calVars>>

\* time passes with nothing evaluated: the tab is hidden, no gaze target has
\* been received yet and the animation callback returns at once, or (popup.js,
\* which has no animation loop) WebGazer delivers no sample
Idle(d) ==
    /\ ~animationFrameId \/ gazeX = NoPos
    /\ ~TimerDue
    /\ now + d <= Horizon
    /\ now' = now + d
    /\ obs' = NoObs
    /\ UNCHANGED <<envVars, pastVars, webgazerVars, hidden, setupVars, killVars, scrollVars, zoneVars, connVars,
                   gazeVars, animationFrameId, calVars, histVars>>

\* the visibilitychange listener, document.hidden becoming true
Hide ==
    /\ ~hidden
    /\ hidden' = TRUE
    /\ StopScrolling
    /\ animationFrameId' = IF variant = "python" THEN FALSE ELSE animationFrameId
    /\ obs' = NoObs
    /\ UNCHANGED <<envVars, pastVars, webgazerVars, now, setupVars, killVars, zoneVars, connVars, gazeVars, calVars, histVars>>

\* the visibilitychange listener, document.hidden becoming false
Show ==
    /\ hidden
    /\ hidden' = FALSE
    /\ animationFrameId' = IF variant = "python" THEN TRUE ELSE animationFrameId
    /\ obs' = NoObs
    /\ UNCHANGED <<envVars, pastVars, webgazerVars, now, setupVars, killVars, scrollVars, zoneVars, connVars,
                   gazeVars, calVars, histVars>>

\* the timers of setup(): connectToServer() after 500 ms, createCalibrationOverlay() 2000 ms later
SetupTimerPy ==
    /\ variant = "python"
    /\ setupAt # NoTime /\ setupAt <= now
    /\ \/ /\ setup = "connect"
          /\ ConnectToServer(FALSE, connectTimers)
          /\ setup' = "overlay"
          /\ setupAt' = now + SETUP_OVERLAY_DELAY_PY
          /\ UNCHANGED <<isConnected, calVars>>
       \/ /\ setup = "overlay"
          /\ CreateCalibrationOverlay(stored, isCalibrated)
          /\ setup' = "done"
          /\ setupAt' = NoTime
          /\ UNCHANGED <<connVars, calibrationClicks, stored, finishTimers>>
    /\ obs' = [NoObs EXCEPT !.src = IF setup = "overlay" THEN "overlay" ELSE "-"]
    /\ UNCHANGED <<envVars, pastVars, webgazerVars, now, hidden, killVars, scrollVars, zoneVars,
                   gazeVars, animationFrameId, histVars>>

\* --------------------------------------------------------- filter state
KALMAN_P0 == 1000
KALMAN_Q == 8
KALMAN_R == 20
\* the error covariance is kept in hundredths
PScale == 100

InitKalman == [x |-> 0, p |-> KALMAN_P0 * PScale]

\* the filter fields of the state object as created, and as reset by the resize listener
InitFilter ==
    /\ filteredX = NoPos /\ filteredY = NoPos
    /\ lastRawX = NoPos /\ lastRawY = NoPos /\ lastTimestamp = NoTime
    /\ velocityX = 0 /\ velocityY = 0
    /\ kalmanX = InitKalman /\ kalmanY = InitKalman
    /\ gazeBuffer = << >>

\* sample: a sample was delivered since initWebGazer(); recoveries: recoveries
\* since the last delivered sample; accepted: time of the last sample that
\* passed the gate since calibration; helped: recoveries since that sample
NoWd == [sample |-> FALSE, recoveries |-> 0, accepted |-> NoTime, helped |-> 0]

\* ----------------------------------------------------- signal filter
\* a normalizer that does not clamp
NormalizeUnclamped(value, viewportSize, marginPct) ==
    RoundDiv(100 * value - marginPct * viewportSize, 100 - 2 * marginPct)

\* the body of lerpCoordinate for a CONFIG.LERP_MARGIN of marginPct percent, to whole pixels
Normalize(value, viewportSize, marginPct) ==
    Max(0, Min(viewportSize,
               RoundDiv(100 * value - marginPct * viewportSize, 100 - 2 * marginPct)))

\* lerpCoordinate(value, viewportSize), to whole pixels:
\* (value - m*size) / ((1 - 2m)*size), clamped to [0, 1], times size
LerpCoordinate(value, viewportSize) == Normalize(value, viewportSize, LERP_MARGIN_PCT)

\* a kalmanFilter() that applies half of the Kalman gain
KalmanFilterHalfGain(measurement, kalmanState) ==
    LET predictedX == kalmanState.x
        predictedP == kalmanState.p + KALMAN_Q * PScale
        r == KALMAN_R * PScale
    IN [x |-> predictedX + RoundDiv(predictedP * (measurement - predictedX), 2 * (predictedP + r)),
        p |-> RoundDiv(r * predictedP, predictedP + r)]

\* kalmanFilter(measurement, kalmanState): the state after the update
KalmanFilter(measurement, kalmanState) ==
    LET predictedX == kalmanState.x
        predictedP == kalmanState.p + KALMAN_Q * PScale
        r == KALMAN_R * PScale
    IN [x |-> predictedX + RoundDiv(predictedP * (measurement - predictedX), predictedP + r),
        p |-> RoundDiv(r * predictedP, predictedP + r)]

\* speed > CONFIG.VELOCITY_THRESHOLD for a velocity in px/s
TooFast(vx, vy) == vx * vx + vy * vy > VELOCITY_THRESHOLD * VELOCITY_THRESHOLD

\* calculateVelocity(newX, newY, timestamp): the tracking fields after the
\* call and whether the returned speed exceeds the threshold
CalculateVelocity(newX, newY, timestamp) ==
    IF lastRawX = NoPos \/ lastTimestamp = NoTime
      THEN [lastRawX |-> newX, lastRawY |-> newY, lastTimestamp |-> timestamp,
            velocityX |-> velocityX, velocityY |-> velocityY, fast |-> FALSE]
      ELSE IF timestamp - lastTimestamp <= 0
        THEN [lastRawX |-> lastRawX, lastRawY |-> lastRawY, lastTimestamp |-> lastTimestamp,
              velocityX |-> velocityX, velocityY |-> velocityY,
              fast |-> TooFast(velocityX, velocityY)]
        ELSE LET vx == RoundDiv((newX - lastRawX) * 1000, timestamp - lastTimestamp)
                 vy == RoundDiv((newY - lastRawY) * 1000, timestamp - lastTimestamp)
             IN [lastRawX |-> newX, lastRawY |-> newY, lastTimestamp |-> timestamp,
                 velocityX |-> vx, velocityY |-> vy, fast |-> TooFast(vx, vy)]

\* an isOutlier() that finds no sample too far
IsOutlierNever(newX, newY) == FALSE

\* isOutlier(newX, newY)
IsOutlier(newX, newY) ==
    /\ filteredX # NoPos /\ filteredY # NoPos
    /\ (newX - filteredX) * (newX - filteredX) + (newY - filteredY) * (newY - filteredY)
         > OUTLIER_THRESHOLD * OUTLIER_THRESHOLD

\* a sample without a confidence property
NoConf == -1

\* a processGazeData() that looks for outliers before it looks at the speed
ProcessGazeDataOutlierFirst(rawX, rawY, timestamp, confidence) ==
    LET lerpedX == LerpCoordinate(rawX, innerWidth)
        lerpedY == LerpCoordinate(rawY, innerHeight)
        v == CalculateVelocity(lerpedX, lerpedY, timestamp)
        kx == KalmanFilter(lerpedX, kalmanX)
        ky == KalmanFilter(lerpedY, kalmanY)
        kept == [ok |-> FALSE, accepted |-> FALSE, x |-> NoPos, y |-> NoPos,
                 filteredX |-> filteredX, filteredY |-> filteredY,
                 kalmanX |-> kalmanX, kalmanY |-> kalmanY,
                 lastRawX |-> v.lastRawX, lastRawY |-> v.lastRawY,
                 lastTimestamp |-> v.lastTimestamp,
                 velocityX |-> v.velocityX, velocityY |-> v.velocityY]
    IN IF confidence # NoConf /\ confidence < MIN_CONFIDENCE_PCT
         THEN [kept EXCEPT !.lastRawX = lastRawX, !.lastRawY = lastRawY,
                           !.lastTimestamp = lastTimestamp,
                           !.velocityX = velocityX, !.velocityY = velocityY]
       ELSE IF IsOutlier(lerpedX, lerpedY)
         THEN [kept EXCEPT !.ok = TRUE, !.x = filteredX, !.y = filteredY]
       ELSE IF v.fast
         THEN kept
       ELSE [kept EXCEPT !.ok = TRUE, !.accepted = TRUE, !.x = kx.x, !.y = ky.x,
                         !.filteredX = kx.x, !.filteredY = ky.x,
                         !.kalmanX = kx, !.kalmanY = ky]

\* processGazeData(rawX, rawY, timestamp, eyeFeatures) with confidence in
\* percent: the filter fields after the call, and the result (ok: not null)
ProcessGazeData(rawX, rawY, timestamp, confidence) ==
    LET lerpedX == LerpCoordinate(rawX, innerWidth)
        lerpedY == LerpCoordinate(rawY, innerHeight)
        v == CalculateVelocity(lerpedX, lerpedY, timestamp)
        kx == KalmanFilter(lerpedX, kalmanX)
        ky == KalmanFilter(lerpedY, kalmanY)
        kept == [ok |-> FALSE, accepted |-> FALSE, x |-> NoPos, y |-> NoPos,
                 filteredX |-> filteredX, filteredY |-> filteredY,
                 kalmanX |-> kalmanX, kalmanY |-> kalmanY,
                 lastRawX |-> v.lastRawX, lastRawY |-> v.lastRawY,
                 lastTimestamp |-> v.lastTimestamp,
                 velocityX |-> v.velocityX, velocityY |-> v.velocityY]
    IN IF confidence # NoConf /\ confidence < MIN_CONFIDENCE_PCT
         THEN [kept EXCEPT !.lastRawX = lastRawX, !.lastRawY = lastRawY,
                           !.lastTimestamp = lastTimestamp,
                           !.velocityX = velocityX, !.velocityY = velocityY]
       ELSE IF v.fast
         THEN kept
       ELSE IF IsOutlier(lerpedX, lerpedY)
         THEN [kept EXCEPT !.ok = TRUE, !.x = filteredX, !.y = filteredY]
       ELSE [kept EXCEPT !.ok = TRUE, !.accepted = TRUE, !.x = kx.x, !.y = ky.x,
                         !.filteredX = kx.x, !.filteredY = ky.x,
                         !.kalmanX = kx, !.kalmanY = ky]

\* ---------------------------------------------------- WebGazer lifecycle
\* Date.now() at model time t: the wall clock runs with performance.now()
\* from a positive origin
DateOrigin == 1000000
DateNow(t) == DateOrigin + t

\* initWebGazer() with the library loaded: listener set, begin(), startWatchdog()
InitWebGazer ==
    /\ webgazer' = "running"
    /\ isWebGazerReady' = TRUE
    /\ lastGazeTime' = DateNow(now)
    /\ watchdogAt' = now + WATCHDOG_INTERVAL
    /\ wd' = NoWd

\* the timers of setup(): initWebGazer() after 500 ms, createCalibrationOverlay() 1500 ms later
SetupTimerWG ==
    /\ variant = "webgazer"
    /\ setupAt # NoTime /\ setupAt <= now
    /\ \/ /\ setup = "init"
          /\ InitWebGazer
          /\ setup' = "overlay"
          /\ setupAt' = now + SETUP_OVERLAY_DELAY_WG
          /\ UNCHANGED <<calVars, recoverTimers, initTimers>>
       \/ /\ setup = "overlay"
          /\ CreateCalibrationOverlay(stored, isCalibrated)
          /\ setup' = "done"
          /\ setupAt' = NoTime
          /\ UNCHANGED <<calibrationClicks, stored, finishTimers, watchVars>>
    /\ obs' = [NoObs EXCEPT !.src = IF setup = "overlay" THEN "overlay" ELSE "-"]
    /\ UNCHANGED <<envVars, pastVars, filterVars, now, hidden, killVars, scrollVars, zoneVars, connVars,
                   gazeVars, animationFrameId, histVars>>

\* a gate of the gaze listener that looks at the calibration only
GatedByCalibration == ~isCalibrated

\* the gate of the gaze listener: if (!state.isActive || !state.isCalibrated) return
Gated == ~isActive \/ ~isCalibrated

\* the gaze listener called with a sample d ms after the last step:
\* lastGazeTime, then behind the isActive / isCalibrated gate
\* processGazeData() and updateGazePosition()
GazeListener(d, x, y, confidence) ==
    /\ variant = "webgazer"
    /\ webgazer = "running"
    /\ ~TimerDue
    /\ now + d <= Horizon
    /\ now' = now + d
    /\ lastGazeTime' = DateNow(now')
    /\ IF Gated
         THEN /\ obs' = [NoObs EXCEPT !.src = "gated"]
              /\ wd' = [wd EXCEPT !.sample = TRUE, !.recoveries = 0]
              /\ UNCHANGED <<filterVars, zoneVars, scrollVars, killVars, histVars>>
         ELSE LET r == ProcessGazeData(x, y, now', confidence)
              IN /\ filteredX' = r.filteredX /\ filteredY' = r.filteredY
                 /\ kalmanX' = r.kalmanX /\ kalmanY' = r.kalmanY
                 /\ lastRawX' = r.lastRawX /\ lastRawY' = r.lastRawY
                 /\ lastTimestamp' = r.lastTimestamp
                 /\ velocityX' = r.velocityX /\ velocityY' = r.velocityY
                 /\ UNCHANGED gazeBuffer
                 /\ wd' = IF r.accepted
                             THEN [sample |-> TRUE, recoveries |-> 0, accepted |-> now', helped |-> 0]
                             ELSE [wd EXCEPT !.sample = TRUE, !.recoveries = 0]
                 /\ IF r.ok
                      THEN UpdateZoneFromGaze(r.x, r.y, now')
                      ELSE /\ obs' = NoObs
                           /\ UNCHANGED <<zoneVars, scrollVars, killVars, histVars>>
    /\ UNCHANGED <<envVars, pastVars, hidden, setupVars, connVars, gazeVars, animationFrameId, calVars,
                   isWebGazerReady, watchdogAt, recoverTimers, initTimers, webgazer>>

\* recoverWebGazer(): pause() and a resume timer, or, when pause() throws,
\* end() and a timer for initWebGazer()
RecoverWebGazer(pauseThrows) ==
    IF pauseThrows
      THEN /\ webgazer' = "ended"
           /\ initTimers' = initTimers \cup {now + RECOVER_INIT_DELAY}
           /\ UNCHANGED recoverTimers
      ELSE /\ webgazer' = IF webgazer = "running" THEN "paused" ELSE webgazer
           /\ recoverTimers' = recoverTimers \cup {now + RECOVER_RESUME_DELAY}
           /\ UNCHANGED initTimers

\* the watchdog would recover at time t
Frozen(t) ==
    /\ isCalibrated /\ isWebGazerReady
    /\ lastGazeTime > 0
    /\ DateNow(t) - lastGazeTime > WATCHDOG_TIMEOUT

\* the setInterval callback of startWatchdog()
WatchdogTick(pauseThrows) ==
    /\ variant = "webgazer"
    /\ watchdogAt # NoTime /\ watchdogAt <= now
    /\ watchdogAt' = watchdogAt + WATCHDOG_INTERVAL
    /\ IF Frozen(now)
         THEN /\ RecoverWebGazer(pauseThrows)
              /\ wd' = [wd EXCEPT !.recoveries = @ + 1, !.helped = @ + 1]
              /\ obs' = [NoObs EXCEPT !.recover = TRUE, !.src = "watchdog"]
         ELSE /\ ~pauseThrows
              /\ obs' = [NoObs EXCEPT !.src = "watchdog"]
              /\ UNCHANGED <<recoverTimers, initTimers, webgazer, wd>>
    /\ UNCHANGED <<envVars, pastVars, filterVars, now, hidden, setupVars, killVars, scrollVars, zoneVars,
                   connVars, gazeVars, animationFrameId, calVars, histVars,
                   isWebGazerReady, lastGazeTime>>

\* setTimeout(() => { webgazer.resume(); state.lastGazeTime = Date.now() }, 500)
RecoverTimer ==
    /\ \E t \in recoverTimers :
         /\ t <= now
         /\ recoverTimers' = recoverTimers \ {t}
    /\ webgazer' = IF webgazer = "paused" THEN "running" ELSE webgazer
    /\ lastGazeTime' = DateNow(now)
    /\ obs' = NoObs
    /\ UNCHANGED <<envVars, pastVars, filterVars, now, hidden, setupVars, killVars, scrollVars, zoneVars,
                   connVars, gazeVars, animationFrameId, calVars, histVars,
                   isWebGazerReady, watchdogAt, initTimers, wd>>

\* setTimeout(() => initWebGazer(), 1000) of the recovery that could not pause
InitTimer ==
    /\ \E t \in initTimers :
         /\ t <= now
         /\ initTimers' = initTimers \ {t}
    /\ InitWebGazer
    /\ obs' = NoObs
    /\ UNCHANGED <<envVars, pastVars, filterVars, now, hidden, setupVars, killVars, scrollVars, zoneVars,
                   connVars, gazeVars, animationFrameId, calVars, histVars, recoverTimers>>

\* ------------------------------------------------------- the two scripts
\* the state object as created, in a 1000 x 800 viewport
InitState ==
    /\ now = 0
    /\ innerWidth = 1000 /\ innerHeight = 800
    /\ hidden = FALSE
    /\ isActive = TRUE
    /\ isScrolling = FALSE /\ scrollDirection = NULL /\ scrollIntervalId = FALSE
    /\ scrollTimers = 0
    /\ currentZone = NULL /\ pendingZone = NULL
    /\ zoneSwitchTime = NoTime /\ dwellStartTime = NoTime
    /\ wsState = NULL /\ isConnected = FALSE
    /\ reconnectTimer = NoTime /\ connectTimers = {}
    /\ gazeX = NoPos /\ gazeY = NoPos /\ displayX = NoPos /\ displayY = NoPos
    /\ isCalibrated = FALSE /\ calibrationClicks = 0
    /\ stored \in BOOLEAN
    /\ overlay = FALSE /\ dotClicks = ZeroClicks
    /\ finishTimers = {} /\ removeTimers = {}
    /\ resumeTimers = {}
    /\ InitFilter
    /\ isWebGazerReady = FALSE /\ lastGazeTime = 0 /\ watchdogAt = NoTime
    /\ recoverTimers = {} /\ initTimers = {} /\ webgazer = "off"
    /\ obs = NoObs /\ run = NoRun /\ flick = NoFlick /\ wd = NoWd
    /\ carried = FALSE /\ wiped = FALSE

\* the page is loaded again: a new session with a new state object, all
\* timers of the old page gone, localStorage kept
Restart ==
    /\ carried' = isCalibrated
    /\ stored' = stored /\ wiped' = wiped
    /\ now' = 0
    /\ hidden' = FALSE
    /\ isActive' = TRUE
    /\ isScrolling' = FALSE /\ scrollDirection' = NULL /\ scrollIntervalId' = FALSE
    /\ scrollTimers' = 0
    /\ currentZone' = NULL /\ pendingZone' = NULL
    /\ zoneSwitchTime' = NoTime /\ dwellStartTime' = NoTime
    /\ wsState' = NULL /\ isConnected' = FALSE
    /\ reconnectTimer' = NoTime /\ connectTimers' = {}
    /\ gazeX' = NoPos /\ gazeY' = NoPos /\ displayX' = NoPos /\ displayY' = NoPos
    /\ isCalibrated' = FALSE /\ calibrationClicks' = 0
    /\ overlay' = FALSE /\ dotClicks' = ZeroClicks
    /\ finishTimers' = {} /\ removeTimers' = {}
    /\ resumeTimers' = {}
    /\ filteredX' = NoPos /\ filteredY' = NoPos
    /\ lastRawX' = NoPos /\ lastRawY' = NoPos /\ lastTimestamp' = NoTime
    /\ velocityX' = 0 /\ velocityY' = 0
    /\ kalmanX' = InitKalman /\ kalmanY' = InitKalman
    /\ gazeBuffer' = << >>
    /\ isWebGazerReady' = FALSE /\ lastGazeTime' = 0 /\ watchdogAt' = NoTime
    /\ recoverTimers' = {} /\ initTimers' = {} /\ webgazer' = "off"
    /\ obs' = NoObs /\ run' = NoRun /\ flick' = NoFlick /\ wd' = NoWd
    /\ setup' = IF variant = "python" THEN "connect" ELSE "init"
    /\ setupAt' = IF variant = "python" THEN SETUP_CONNECT_DELAY ELSE SETUP_INIT_DELAY
    /\ animationFrameId' = (variant = "python")
    /\ UNCHANGED <<variant, innerWidth, innerHeight>>

\* start_server.bat after setup() has returned
InitPy ==
    /\ variant = "python"
    /\ setup = "connect" /\ setupAt = SETUP_CONNECT_DELAY
    /\ animationFrameId = TRUE
    /\ InitState

\* popup.js after setup() has returned
InitWG ==
    /\ variant = "webgazer"
    /\ setup = "init" /\ setupAt = SETUP_INIT_DELAY
    /\ animationFrameId = FALSE
    /\ InitState

\* ------------------------------------------------------------------ inputs
\* animation frames arrive 50 ms apart, or 40 and 60 ms apart where jitter matters
FrameSteps == {50}
JitterSteps == {40, 60}
IdleSteps == {500}
\* gaze samples of the WebGazer variant arrive 500 ms apart when the watchdog is studied
SampleSteps == {500}
\* a gaze position left of the strip, and the confidence of a sample (percent, or none)
CentreXs == {500}
CentreYs == {400}
Confidences == {NoConf, 10}
\* gaze targets next to the left edge of the strip (x = 860 at width 1000)
\* and next to the zone boundaries y = 0 and y = 160 (height 800)
StripXs == {864}
EdgeXs == {856, 864}
TopYs == {4}
AboveYs == {-4, 4}
BoundaryYs == {156, 164}

\* the calibration gate of the WebSocket variant while one zone is looked at
NextPyGate ==
    \/ SetupTimerPy
    \/ WsOpen
    \/ \E x \in StripXs, y \in TopYs : ServerGaze(x, y)
    \/ \E b \in BOOLEAN : ServerCalibrationAck(b)
    \/ ServerCalibrationReset
    \/ SkipClick
    \/ RemoveTimer
    \/ RecalibrateClick
    \/ \E d \in FrameSteps : Animate(d)
    \/ \E d \in IdleSteps : Idle(d)

SpecPyGate == InitPy /\ [][NextPyGate]_vars

\* the session starts with the calibration flag already persisted
InitPyStored == InitPy /\ stored

\* the zone resolver of the WebSocket variant at the edge of the strip
NextPyStrip ==
    \/ SetupTimerPy
    \/ WsOpen
    \/ \E x \in EdgeXs, y \in TopYs : ServerGaze(x, y)
    \/ \E d \in JitterSteps : Animate(d)
    \/ \E d \in IdleSteps : Idle(d)

SpecPyStrip == InitPyStored /\ [][NextPyStrip]_vars

\* the zone resolver of the WebSocket variant at the boundary of two zones
NextPyZones ==
    \/ SetupTimerPy
    \/ WsOpen
    \/ \E x \in EdgeXs, y \in BoundaryYs : ServerGaze(x, y)
    \/ \E d \in FrameSteps : Animate(d)
    \/ \E d \in IdleSteps : Idle(d)

SpecPyZones == InitPyStored /\ [][NextPyZones]_vars

\* the zone resolver of the WebSocket variant at the top edge of the viewport
NextPyAbove ==
    \/ SetupTimerPy
    \/ WsOpen
    \/ \E x \in StripXs, y \in AboveYs : ServerGaze(x, y)
    \/ \E d \in FrameSteps : Animate(d)
    \/ \E d \in IdleSteps : Idle(d)

SpecPyAbove == InitPyStored /\ [][NextPyAbove]_vars

\* the WebGazer variant with its watchdog: samples, silences, recoveries, calibration
NextWatchdog ==
    \/ SetupTimerWG
    \/ \E d \in SampleSteps, x \in CentreXs, y \in CentreYs, c \in Confidences : GazeListener(d, x, y, c)
    \/ \E pauseThrows \in BOOLEAN : WatchdogTick(pauseThrows)
    \/ RecoverTimer
    \/ InitTimer
    \/ SkipClick
    \/ RemoveTimer
    \/ RecalibrateClick
    \/ \E d \in IdleSteps : Idle(d)

SpecWatchdog == InitWG /\ [][NextWatchdog]_vars

\* a first session of the WebSocket variant: nothing persisted
InitPyFresh == InitPy /\ ~stored

\* the user works on one calibration target at a time: no other target is
\* left with some but not all of its clicks
OneAtATime(i) ==
    \A j \in Dots : (dotClicks[j] > 0 /\ ~PointComplete(dotClicks[j])) => j = i

CollectClick(i) == OneAtATime(i) /\ DotClick(i)

\* the recalibrate button clicked while no overlay covers it
RecalibrateUncovered == ~overlay /\ RecalibrateClick

\* collecting the calibration by clicks, the targets in any order, with no
\* skip and no message from the server; the overlay covers the viewport, so
\* the recalibrate button is clicked only while no overlay is shown
NextPyCollect ==
    \/ SetupTimerPy
    \/ \E i \in Dots : CollectClick(i)
    \/ FinishTimer
    \/ RemoveTimer
    \/ RecalibrateUncovered
    \/ \E d \in IdleSteps : Idle(d)

SpecPyCollect == InitPyFresh /\ [][NextPyCollect]_vars

\* the user completes the calibration targets in their order on the screen
InOrderClick(i) == (\A j \in 1..(i - 1) : PointComplete(dotClicks[j])) /\ DotClick(i)

\* sessions of the WebSocket variant one after another: the gate becomes Done
\* by clicks, by skip or by the server's ack, is reset by the user or by the
\* server, and the page is loaded again
NextPyRestart ==
    \/ SetupTimerPy
    \/ WsOpen
    \/ \E b \in BOOLEAN : ServerCalibrationAck(b)
    \/ ServerCalibrationReset
    \/ \E i \in Dots : InOrderClick(i)
    \/ FinishTimer
    \/ SkipClick
    \/ RemoveTimer
    \/ RecalibrateClick
    \/ Restart
    \/ \E d \in IdleSteps : Idle(d)

SpecPyRestart == InitPyFresh /\ [][NextPyRestart]_vars

\* C1: while calibration is not Done (state.isCalibrated false) the dwell
\* evaluation of the animation tick dispatches no activation command.
NoDwellDispatchUncalibrated ==
    (obs.tick /\ obs.fired # NULL) => isCalibrated

\* ------------------------------------------------------------ dwell, C2
\* an evaluated tick of a run that started from Idle (no current zone, no
\* candidate) and whose ticks were less than ZONE_SWITCH_DELAY apart
HeldFromIdle == obs.tick /\ run.idle /\ run.steady /\ run.zone \in ZoneIds

\* C2 as stated: one activation once the zone has been held for DWELL_TIME, two
\* once it has been held for 2 x DWELL_TIME, the dwell restarting at each activation.
HoldFiresAtDwellTime ==
    HeldFromIdle =>
        /\ (now - run.since >= DWELL_TIME => run.acts >= 1)
        /\ (now - run.since >= 2 * DWELL_TIME => run.acts >= 2)
        /\ (now - run.since < DWELL_TIME => run.acts = 0)
        /\ (now - run.since < 2 * DWELL_TIME => run.acts <= 1)
        /\ (obs.fired # NULL => dwellStartTime = now)

\* C2 amended: the zone is committed ZONE_SWITCH_DELAY after the first tick, so
\* the k-th activation of a zone held from Idle comes at the first tick at
\* least DWELL_TIME after the commit (k = 1) or after the previous activation:
\* never before the zone has been held for ZONE_SWITCH_DELAY + k x DWELL_TIME,
\* and, the ticks being less than ZONE_SWITCH_DELAY apart, before it has been
\* held for (k + 2) x ZONE_SWITCH_DELAY + k x DWELL_TIME; it is an activation
\* of that zone and the dwell restarts at the activation time.
HoldFiresAfterSwitchDelay ==
    HeldFromIdle =>
        /\ \A k \in 1..3 :
             /\ run.acts >= k => now - run.since >= ZONE_SWITCH_DELAY + k * DWELL_TIME
             /\ now - run.since >= (k + 2) * ZONE_SWITCH_DELAY + k * DWELL_TIME => run.acts >= k
        /\ obs.fired # NULL => (obs.fired = run.zone /\ dwellStartTime = now)

\* a zone held from Idle has just been activated for the second time
HeldTwice == HeldFromIdle /\ run.acts = 2 /\ obs.fired # NULL

\* ---------------------------------------------------------- flicker, C3
\* state.dwellStartTime after a tick at time t that resolved to the current zone
AsIfHeld(ds, t) == IF t - Num(ds) >= DWELL_TIME THEN t ELSE ds

\* C3: a one-tick flicker to another zone, the ticks less than
\* ZONE_SWITCH_DELAY apart, leaves currentZone unchanged and dwellStartTime
\* as it would be had both ticks resolved to the current zone.
FlickerKeepsDwell ==
    /\ (obs.tick /\ flick.stage = "away" /\ flick.gap < ZONE_SWITCH_DELAY) =>
          /\ currentZone = flick.c
          /\ dwellStartTime = AsIfHeld(flick.ds, flick.at)
    /\ (obs.tick /\ flick.stage = "back" /\ flick.gap < ZONE_SWITCH_DELAY) =>
          /\ currentZone = flick.c
          /\ dwellStartTime = AsIfHeld(AsIfHeld(flick.ds, flick.at), now)

\* the tick after a one-tick flicker, with dwell progress to lose
FlickeredBack ==
    /\ obs.tick /\ flick.stage = "back" /\ flick.gap < ZONE_SWITCH_DELAY
    /\ flick.at - flick.ds >= ZONE_SWITCH_DELAY

\* ------------------------------------------------------- hysteresis, C4
\* C4: a switch is committed only to the zone that every evaluated tick of
\* the preceding ZONE_SWITCH_DELAY ms resolved to.
CommitOnlyWhenStable ==
    obs.commit => (run.zone = currentZone /\ now - run.since >= ZONE_SWITCH_DELAY)

\* --------------------------------------------------- leaving the strip, C5
\* C5: after an evaluated tick outside the strip nothing is current, pending or dwelt on.
OutsideClearsAll ==
    (obs.tick /\ obs.resolved = "out") =>
        (currentZone = NULL /\ pendingZone = NULL /\ dwellStartTime = NoTime)

\* ------------------------------------------------ state invariants, C6, C7
\* C6: dwellStartTime is set exactly when currentZone is a zone.
DwellStartIffZone == (dwellStartTime # NoTime) <=> (currentZone \in ZoneIds)

\* C7: a pending zone differs from the current zone.
PendingDiffers == pendingZone # NULL => pendingZone # currentZone

\* a switch is pending while another zone is current
SwitchPending == pendingZone \in ZoneIds /\ currentZone \in ZoneIds

\* ------------------------------------------------------ zone resolver, C8
\* C8: whatever y, the resolved zone is one of the ZONE_COUNT zones, and
\* currentZone and pendingZone hold a zone or none.
ResolvedZoneDefined ==
    /\ (obs.tick /\ obs.resolved # "out") => obs.resolved \in ZoneIds
    /\ currentZone \in ZoneIds \cup {NULL}
    /\ pendingZone \in ZoneIds \cup {NULL}

\* C9: while calibrated, a freeze (no sample arriving for longer than
\* WATCHDOG_TIMEOUT) has recoverWebGazer invoked once, however long it lasts:
\* no second recovery before the next sample.
OneRecoveryPerFreeze == wd.sample => wd.recoveries <= 1

\* C10: the watchdog invokes no recovery while uncalibrated, nor before the
\* gaze listener has been given a sample since initWebGazer().
WatchdogInertBeforeFirstSample == obs.recover => (isCalibrated /\ wd.sample)

\* C11: at a watchdog check made while calibrated, more than WATCHDOG_TIMEOUT
\* after the last sample that passed the gate, recovery is invoked (at this
\* check or at an earlier one since that sample), whatever rejected samples
\* were delivered in between.
RejectedSamplesTimeOut ==
    (obs.src = "watchdog" /\ isCalibrated /\ isWebGazerReady
        /\ wd.accepted # NoTime /\ now - wd.accepted > WATCHDOG_TIMEOUT)
      => wd.helped >= 1

\* -------------------------------------------------- calibration gate, C12
\* every calibration target has received CLICKS_PER_POINT clicks
AllConfirmed == \A i \in Dots : dotClicks[i] = CLICKS_PER_POINT

\* C12: with no skip and no calibration_ack the gate is Done only when each
\* of the CALIBRATION_POINTS targets has received CLICKS_PER_POINT clicks, in
\* whatever order, and once they all have it is Done, or will be when the
\* timer armed by the last click runs FINISH_DELAY later.
DoneAfterAllConfirmed ==
    /\ isCalibrated => AllConfirmed
    /\ AllConfirmed =>
          \/ isCalibrated
          \/ finishTimers # {} /\ \A t \in finishTimers : t <= now + FINISH_DELAY

\* ------------------------------------------------------ persistence, C13
\* C13: in a session that follows one that ended with the gate Done, with no
\* recalibration since, the createCalibrationOverlay() of setup() sets the
\* gate Done and creates no overlay and no targets.
RestartShortCircuits ==
    (obs.src = "overlay" /\ carried) =>
        (isCalibrated /\ ~overlay /\ dotClicks = ZeroClicks /\ stored)

\* setup() of a later session has just found the persisted flag
RestartedDone == obs.src = "overlay" /\ carried /\ isCalibrated

\* --------------------------------------------------------- resets, C14, C15
\* C14: the recalibrate action leaves the gate NotStarted (not calibrated, no
\* target confirmed, persisted flag cleared) and has told the upstream
\* collaborator to discard its calibration, whatever the connection state.
RecalibrateResetsAll ==
    obs.src = "recalibrate" =>
        /\ ~isCalibrated /\ calibrationClicks = 0 /\ ~stored
        /\ obs.sent \in {"reset_calibration", "clearData"}

\* C15: after a calibration_reset message the gate is NotStarted (not
\* calibrated, no target confirmed) and stays not Done, across session
\* restarts, until a collection, a skip, an ack or a recalibration.
ResetStaysNotDone ==
    /\ obs.src = "calibration_reset" => (~isCalibrated /\ calibrationClicks = 0)
    /\ wiped => ~isCalibrated

\* ----------------------------------------------------------- the ack, C16
\* C16: a calibration_ack with is_calibrated true leaves the gate Done
\* (isCalibrated true and the flag persisted) whatever the calibration state
\* and the number of targets confirmed before it; a calibration_ack with
\* is_calibrated false changes nothing of the calibration state.
AckTrueForcesDone ==
    [][obs'.src = "calibration_ack" =>
          IF obs'.ack = "true" THEN isCalibrated' /\ stored' ELSE UNCHANGED calVars]_vars

AckedPartway ==
    /\ obs.src = "calibration_ack" /\ obs.ack = "true"
    /\ isCalibrated /\ stored
    /\ calibrationClicks \in 1..(CALIBRATION_POINTS - 1)

\* ------------------------------------------------- forwarded clicks, C17
\* C17: every confirmation click counted toward a target's CLICKS_PER_POINT
\* total sends a calibration_point message upstream, also when the
\* connection is not open.
EveryClickForwarded == obs.src = "dot" => obs.sent = "calibration_point"

\* --------------------------------------------------- connection loss, C18
\* the WebSocket variant while the connection opens, drops and is retried
\* and the last gaze target lies in a zone
NextPyDrop ==
    \/ SetupTimerPy
    \/ WsOpen
    \/ WsClose
    \/ ReconnectTimer
    \/ \E x \in StripXs, y \in TopYs : ServerGaze(x, y)
    \/ \E d \in FrameSteps : Animate(d)
    \/ \E d \in IdleSteps : Idle(d)

SpecPyDrop == InitPyStored /\ [][NextPyDrop]_vars

\* C18: while the upstream connection is not established (isConnected
\* false) no animation tick dispatches an activation command, also after the
\* connection dropped with the last gaze target inside a zone.
NoDispatchDisconnected ==
    (obs.tick /\ obs.fired # NULL) => isConnected

\* ------------------------------------------------------ the Stop zone, C19
\* a gaze target in the Stop zone, the last fifth of the strip (y >= 640 at height 800)
StopYs == {700}

\* the Stop zone of the sidebar is clicked while no pause is running
StopClick == resumeTimers = {} /\ ZoneClick("KILL_SWITCH")

\* the WebSocket variant while the Stop zone is looked at or clicked
NextPyKill ==
    \/ SetupTimerPy
    \/ StopClick
    \/ WsOpen
    \/ \E x \in StripXs, y \in StopYs : ServerGaze(x, y)
    \/ \E d \in FrameSteps : Animate(d)
    \/ ResumeTimer
    \/ \E d \in IdleSteps : Idle(d)

SpecPyKill == InitPyStored /\ [][NextPyKill]_vars

\* C19: after KILL_SWITCH is activated no gaze-driven activation of any zone
\* is dispatched while the 3000 ms pause it armed is running (a tick that
\* dispatches sees no resume timer still ahead of it, apart from the one it
\* has just armed), and tracking is active whenever no pause is pending.
PauseAfterStop ==
    /\ (obs.tick /\ obs.fired # NULL) =>
           \A rt \in resumeTimers : rt <= now \/ rt = now + KILL_SWITCH_PAUSE
    /\ resumeTimers = {} => isActive

\* ------------------------------------------------------------ resize, C20
\* the viewport sizes (width, height) a window is resized between
Viewports == {<<1000, 800>>, <<1200, 900>>}

\* the resize listener of setup(): popup.js resets the filter fields,
\* start_server.bat sends the new screen size over an open socket
Resize(w, h) ==
    /\ <<w, h>> # <<innerWidth, innerHeight>>
    /\ innerWidth' = w /\ innerHeight' = h
    /\ IF variant = "webgazer"
         THEN /\ filteredX' = NoPos /\ filteredY' = NoPos
              /\ gazeBuffer' = << >>
              /\ lastRawX' = NoPos /\ lastRawY' = NoPos /\ lastTimestamp' = NoTime
              /\ velocityX' = 0 /\ velocityY' = 0
              /\ kalmanX' = InitKalman /\ kalmanY' = InitKalman
         ELSE UNCHANGED filterVars
    /\ obs' = [NoObs EXCEPT !.src = "resize",
                            !.sent = IF variant = "python" /\ wsState = "OPEN" THEN "screen_size" ELSE "-"]
    /\ UNCHANGED <<variant, pastVars, watchVars, now, hidden, setupVars, killVars, scrollVars, zoneVars, connVars,
                   gazeVars, animationFrameId, calVars, histVars>>

\* both scripts, calibration persisted, while a zone is looked at and the window is resized
InitResize == (InitPy \/ InitWG) /\ stored

\* nothing is delivered while the timers of setup() are pending
SetupIdle(d) == setup # "done" /\ Idle(d)

NextResize ==
    \/ SetupTimerPy
    \/ WsOpen
    \/ \E x \in StripXs, y \in TopYs : ServerGaze(x, y)
    \/ \E d \in FrameSteps : Animate(d)
    \/ SetupTimerWG
    \/ \E d \in SampleSteps, x \in StripXs, y \in CentreYs : GazeListener(d, x, y, NoConf)
    \/ \E pauseThrows \in BOOLEAN : WatchdogTick(pauseThrows)
    \/ \E v \in Viewports : Resize(v[1], v[2])
    \/ \E d \in IdleSteps : SetupIdle(d)

SpecResize == InitResize /\ [][NextResize]_vars

\* C20: immediately after the resize listener the filter state equals its
\* initial value and currentZone, pendingZone and the dwell start are none.
ResizeClearsAll ==
    obs.src = "resize" =>
        /\ InitFilter
        /\ currentZone = NULL /\ pendingZone = NULL /\ dwellStartTime = NoTime

\* ------------------------------------------------- resets of state, C21
\* C21: after the recalibrate action and after a watchdog-triggered recovery
\* the filtered position and both Kalman states have their initial values
\* and currentZone, pendingZone and the dwell start are none.
ResetsRestoreInitial ==
    (obs.src = "recalibrate" \/ obs.recover) =>
        /\ filteredX = NoPos /\ filteredY = NoPos
        /\ kalmanX = InitKalman /\ kalmanY = InitKalman
        /\ currentZone = NULL /\ pendingZone = NULL /\ dwellStartTime = NoTime

\* a startScrolling() without the early return on a running interval
StartScrollingAgain(direction) ==
    /\ isScrolling' = TRUE
    /\ scrollDirection' = direction
    /\ scrollIntervalId' = TRUE
    /\ scrollTimers' = scrollTimers + 1

\* ------------------------------------------------ continuous scroll, C22
\* startScrolling(direction)
StartScrolling(direction) ==
    IF scrollIntervalId
      THEN UNCHANGED scrollVars
      ELSE /\ isScrolling' = TRUE
           /\ scrollDirection' = direction
           /\ scrollIntervalId' = TRUE
           /\ scrollTimers' = scrollTimers + 1

\* the mousedown listener of a sidebar zone of popup.js: the scroll zones start a continuous scroll
MouseDown(zone) ==
    /\ variant = "webgazer"
    /\ IF zone \in {"SCROLL_UP", "SCROLL_DOWN"}
         THEN StartScrolling(IF zone = "SCROLL_UP" THEN "up" ELSE "down")
         ELSE UNCHANGED scrollVars
    /\ obs' = [NoObs EXCEPT !.src = "mousedown"]
    /\ UNCHANGED <<envVars, pastVars, webgazerVars, now, hidden, setupVars, killVars, zoneVars, connVars,
                   gazeVars, animationFrameId, calVars, histVars>>

\* the mouseup and mouseleave listeners of a scroll zone of popup.js
MouseUp ==
    /\ variant = "webgazer"
    /\ isScrolling
    /\ StopScrolling
    /\ obs' = [NoObs EXCEPT !.src = "mouseup"]
    /\ UNCHANGED <<envVars, pastVars, webgazerVars, now, hidden, setupVars, killVars, zoneVars, connVars,
                   gazeVars, animationFrameId, calVars, histVars>>

\* gaze samples left of the strip and inside it
AnyXs == CentreXs \cup StripXs

\* popup.js, calibration persisted, while a scroll zone is held with the mouse
InitWGStored == InitWG /\ stored

NextWGScroll ==
    \/ SetupTimerWG
    \/ \E d \in SampleSteps, x \in AnyXs, y \in CentreYs : GazeListener(d, x, y, NoConf)
    \/ \E pauseThrows \in BOOLEAN : WatchdogTick(pauseThrows)
    \/ \E zone \in ZoneIds : MouseDown(zone)
    \/ MouseUp
    \/ \E d \in IdleSteps : SetupIdle(d)

SpecWGScroll == InitWGStored /\ [][NextWGScroll]_vars

\* C22: after an evaluated tick that commits a zone switch or whose position
\* is outside the strip no continuous scroll is in progress.
NoScrollAfterExit ==
    (obs.tick /\ (obs.commit \/ obs.resolved = "out")) => (~scrollIntervalId /\ ~isScrolling)

\* --------------------------------------------- the sample gate, C23..C26
\* the filter fields of the state object
FilterNow ==
    [filteredX |-> filteredX, filteredY |-> filteredY, kalmanX |-> kalmanX, kalmanY |-> kalmanY,
     lastRawX |-> lastRawX, lastRawY |-> lastRawY, lastTimestamp |-> lastTimestamp,
     velocityX |-> velocityX, velocityY |-> velocityY]

\* samples arrive at their normal spacing, 100 ms apart, or twice within the same millisecond
GateSteps == SampleSteps \cup {0, 100}
\* a confidence below MIN_CONFIDENCE, or none
GateConfidences == {NoConf, 10}
\* processGazeData() is called at most MaxSamples times
MaxSamples == 4

\* the calls of processGazeData() made so far
SampleCount == IF obs.src = "sample" THEN obs.n ELSE 0
\* the calls in a row, up to the last one, that were given the position of
\* their predecessor at the normal spacing with no low confidence
SteadyRun(d, rawX, rawY, confidence) ==
    IF obs.src = "sample" /\ obs.rawX = rawX /\ obs.rawY = rawY /\ d \in SampleSteps /\ confidence = NoConf
      THEN obs.steady + 1
      ELSE 0

\* one call processGazeData(rawX, rawY, performance.now(), {confidence}), d ms after the last
ProcessSample(d, rawX, rawY, confidence) ==
    /\ variant = "webgazer"
    /\ SampleCount < MaxSamples
    /\ now + d <= Horizon
    /\ now' = now + d
    /\ LET r == ProcessGazeData(rawX, rawY, now', confidence)
       IN /\ filteredX' = r.filteredX /\ filteredY' = r.filteredY
          /\ kalmanX' = r.kalmanX /\ kalmanY' = r.kalmanY
          /\ lastRawX' = r.lastRawX /\ lastRawY' = r.lastRawY
          /\ lastTimestamp' = r.lastTimestamp
          /\ velocityX' = r.velocityX /\ velocityY' = r.velocityY
          /\ UNCHANGED gazeBuffer
          /\ obs' = [src |-> "sample", n |-> SampleCount + 1,
                     rawX |-> rawX, rawY |-> rawY, timestamp |-> now', confidence |-> confidence,
                     steady |-> SteadyRun(d, rawX, rawY, confidence),
                     prior |-> FilterNow, r |-> r] @@ NoObs
    /\ UNCHANGED <<envVars, pastVars, watchVars, hidden, setupVars, killVars, scrollVars, zoneVars, connVars,
                   gazeVars, animationFrameId, calVars, histVars>>

\* processGazeData() on its own, from the state object as created
NextFilter == \E d \in GateSteps, x \in AnyXs, y \in CentreYs, c \in GateConfidences : ProcessSample(d, x, y, c)

SpecFilter == InitWG /\ [][NextFilter]_vars

\* the rules of the gate, in their order, for the sample recorded in obs:
\* the speed against the last raw position (the last velocity when no time
\* has passed, none when there is no last raw position), then the distance
\* from the prior filtered position (none when there is no such position)
RefLerped == [x |-> LerpCoordinate(obs.rawX, innerWidth), y |-> LerpCoordinate(obs.rawY, innerHeight)]
RefElapsed == obs.timestamp - obs.prior.lastTimestamp
RefTooFast ==
    /\ obs.prior.lastRawX # NoPos /\ obs.prior.lastTimestamp # NoTime
    /\ IF RefElapsed <= 0
         THEN obs.prior.velocityX * obs.prior.velocityX + obs.prior.velocityY * obs.prior.velocityY
                > VELOCITY_THRESHOLD * VELOCITY_THRESHOLD
         ELSE LET dx == RefLerped.x - obs.prior.lastRawX
                  dy == RefLerped.y - obs.prior.lastRawY
                  reach == (VELOCITY_THRESHOLD * RefElapsed) \div 100
              IN (dx * dx + dy * dy) * 100 > reach * reach
RefTooFar ==
    /\ obs.prior.filteredX # NoPos /\ obs.prior.filteredY # NoPos
    /\ LET dx == RefLerped.x - obs.prior.filteredX
           dy == RefLerped.y - obs.prior.filteredY
       IN dx * dx + dy * dy > OUTLIER_THRESHOLD * OUTLIER_THRESHOLD
RefOutcome ==
    IF obs.confidence # NoConf /\ obs.confidence < MIN_CONFIDENCE_PCT THEN "rejected"
    ELSE IF RefTooFast THEN "rejected"
    ELSE IF RefTooFar THEN "held"
    ELSE "accepted"

\* what processGazeData() returned: null, the prior filtered position, or a newly filtered one
Outcome(r) == IF r.accepted THEN "accepted" ELSE IF r.ok THEN "held" ELSE "rejected"

\* C23: processGazeData decides every sample as the ordered rules do
\* (confidence, then speed, then distance, else accept): null for the first
\* two, the prior filtered position for the third, a filtered position
\* that becomes the state's for the last.
GateFollowsRules ==
    obs.src = "sample" =>
        /\ Outcome(obs.r) = RefOutcome
        /\ RefOutcome = "rejected" => ~obs.r.ok
        /\ RefOutcome = "held" => (obs.r.x = obs.prior.filteredX /\ obs.r.y = obs.prior.filteredY)
        /\ RefOutcome = "accepted" => (obs.r.x = filteredX /\ obs.r.y = filteredY)

\* a sample that is both too fast and too far, after an accepted one
FastAndFar ==
    /\ obs.src = "sample" /\ obs.confidence = NoConf
    /\ RefTooFast /\ RefTooFar /\ ~obs.r.ok

\* C24: a sample that passes the confidence and the speed rule but lies
\* farther than OUTLIER_THRESHOLD from the prior filtered position is
\* answered with exactly that position, and the filtered position and both
\* Kalman states stay as they were.
OutlierHoldsSteady ==
    (obs.src = "sample" /\ RefOutcome = "held") =>
        /\ obs.r.ok /\ obs.r.x = obs.prior.filteredX /\ obs.r.y = obs.prior.filteredY
        /\ filteredX = obs.prior.filteredX /\ filteredY = obs.prior.filteredY
        /\ kalmanX = obs.prior.kalmanX /\ kalmanY = obs.prior.kalmanY

HeldSteady ==
    /\ obs.src = "sample" /\ RefOutcome = "held"
    /\ obs.r.ok /\ obs.r.x # NoPos /\ obs.r.x # RefLerped.x

\* C25: every sample passed to processGazeData leaves the last raw position
\* and the last timestamp at that sample's values, accepted or rejected.
TrackingAlwaysUpdated ==
    obs.src = "sample" =>
        /\ lastRawX = RefLerped.x /\ lastRawY = RefLerped.y
        /\ lastTimestamp = obs.timestamp

\* the filter fields but for the time of the last sample
Timeless(f) == [f EXCEPT !.lastTimestamp = NoTime]

\* C26: the gate cannot reject one repeated position for ever. A sample that
\* repeats the position of its predecessor at the normal spacing, with no
\* low confidence, is accepted or at least changes the filter fields; one
\* that is rejected and changes nothing but the time of the last sample
\* leaves the next repetition in the same situation, and so every later one.
RepeatsGetThrough ==
    (obs.src = "sample" /\ obs.steady >= 1 /\ ~obs.r.accepted) =>
        Timeless(FilterNow) # Timeless(obs.prior)

\* ------------------------------------------------- the listener's gate, C27
\* gaze samples in the Stop zone of the strip
StopXYs == StripXs \X StopYs

\* popup.js while calibration is skipped or loaded and Stop is clicked or looked at
NextWGGate ==
    \/ SetupTimerWG
    \/ \E d \in SampleSteps, xy \in StopXYs : GazeListener(d, xy[1], xy[2], NoConf)
    \/ \E pauseThrows \in BOOLEAN : WatchdogTick(pauseThrows)
    \/ StopClick
    \/ ResumeTimer
    \/ SkipClick
    \/ RemoveTimer
    \/ \E d \in IdleSteps : SetupIdle(d)

SpecWGGate == InitWG /\ [][NextWGGate]_vars

\* C27: a gaze sample delivered by WebGazer while calibration is not Done or
\* tracking is paused dispatches nothing and changes no filter, zone, dwell,
\* scroll, pause or calibration field; the listener (the one step on which
\* time passes and the last-sample time is set) updates lastGazeTime only.
GatedSampleInert ==
    [][(now' # now /\ lastGazeTime' # lastGazeTime /\ (~isCalibrated \/ ~isActive)) =>
          /\ lastGazeTime' = DateNow(now')
          /\ obs'.fired = NULL /\ ~obs'.tick
          /\ UNCHANGED <<filterVars, zoneVars, scrollVars, killVars, calVars>>]_vars

SampleWhilePaused ==
    /\ obs.src = "gated" /\ isCalibrated /\ ~isActive
    /\ filteredX # NoPos /\ currentZone # NULL

\* ----------------------------------------------------- the zone grid, C28
\* viewports with zone boundaries on whole pixels and between them
GridViewports == Viewports \cup {<<1366, 768>>}
\* positions around the left edge of the strip of each viewport, its right edge, and x = 950
GridXs == {950} \cup UNION {{v[1] - SIDEBAR_WIDTH - 1, v[1] - SIDEBAR_WIDTH, v[1] - SIDEBAR_WIDTH + 1, v[1]} :
                            v \in GridViewports}
\* the top and the bottom of each viewport, the pixels around each of its zone boundaries, and y = 500
GridYs == {0, 500} \cup UNION {{v[2]} \cup {(k * v[2]) \div ZONE_COUNT + e : k \in 1..(ZONE_COUNT - 1), e \in {-1, 0, 1}} :
                               v \in GridViewports}

\* isInSidebar(x) and getZoneFromY(y) applied to one position
Resolve(x, y) ==
    /\ obs' = [src |-> "resolve", x |-> x, y |-> y,
               inside |-> IsInSidebar(x), zone |-> GetZoneFromY(y)] @@ NoObs
    /\ UNCHANGED <<envVars, pastVars, webgazerVars, now, hidden, setupVars, killVars, scrollVars, zoneVars,
                   connVars, gazeVars, animationFrameId, calVars, histVars>>

\* the zone resolver on its own, in every viewport
NextGrid ==
    \/ \E v \in GridViewports : Resize(v[1], v[2])
    \/ \E x \in GridXs, y \in GridYs : Resolve(x, y)

SpecGrid == InitPy /\ [][NextGrid]_vars

\* the zone index by the boundaries k * h / 5, without a division
GridIndex(y, h) == CHOOSE k \in 0..4 : k * h <= 5 * y /\ (k = 4 \/ 5 * y < (k + 1) * h)

\* C28: for 0 <= y <= h a position is in the strip iff x >= w - 140 and its
\* zone is the one with index min(floor(y / (h/5)), 4); at 1000 x 800 the
\* zones start at y = 0, 160, 320, 480, 640 and (950, 500) is in zone 3.
ResolverMatchesGrid ==
    (obs.src = "resolve" /\ 0 <= obs.y /\ obs.y <= innerHeight) =>
        /\ obs.inside <=> obs.x >= innerWidth - 140
        /\ obs.zone = ZONES[GridIndex(obs.y, innerHeight) + 1]
        /\ (innerWidth = 1000 /\ innerHeight = 800) =>
              /\ \A k \in 0..4 : (160 * k <= obs.y /\ obs.y < 160 * (k + 1)) => obs.zone = ZONES[k + 1]
              /\ obs.y = 800 => obs.zone = ZONES[5]
              /\ (obs.x = 950 /\ obs.y = 500) => (obs.inside /\ obs.zone = ZONES[4])

ResolvedScenario ==
    /\ obs.src = "resolve" /\ innerWidth = 1000 /\ innerHeight = 800
    /\ obs.x = 950 /\ obs.y = 500 /\ obs.inside /\ obs.zone = "ASK_AI"

\* ---------------------------------------------------- the normalizer, C29
\* axis extents, margins in percent (0 to 49), and raw inputs: below 0, 0,
\* the two margin bounds of every extent, its middle, its end, and beyond it
Extents == {800, 1000, 1200}
MarginPcts == {0, 8, 25, 49}
RawInputs ==
    {-50, 0} \cup UNION {{(m * e) \div 100, ((100 - m) * e) \div 100, e \div 2, e, e + 50} :
                         e \in Extents, m \in MarginPcts}

\* lerpCoordinate(value, viewportSize) under a CONFIG.LERP_MARGIN of marginPct percent
Lerp(value, viewportSize, marginPct) ==
    /\ obs' = [src |-> "lerp", value |-> value, extent |-> viewportSize, marginPct |-> marginPct,
               out |-> Normalize(value, viewportSize, marginPct)] @@ NoObs
    /\ UNCHANGED <<envVars, pastVars, webgazerVars, now, hidden, setupVars, killVars, scrollVars, zoneVars,
                   connVars, gazeVars, animationFrameId, calVars, histVars>>

NextLerp == \E value \in RawInputs, e \in Extents, m \in MarginPcts : Lerp(value, e, m)

SpecLerp == InitWG /\ [][NextLerp]_vars

\* C29: the normalizer's output lies in [0, extent] for every input, an
\* input of m * extent gives 0 and an input of (1 - m) * extent gives extent.
NormalizerInRange ==
    obs.src = "lerp" =>
        /\ 0 <= obs.out /\ obs.out <= obs.extent
        /\ 100 * obs.value = obs.marginPct * obs.extent => obs.out = 0
        /\ 100 * obs.value = (100 - obs.marginPct) * obs.extent => obs.out = obs.extent

NormalizedBeyond ==
    /\ obs.src = "lerp" /\ obs.marginPct = 49
    /\ obs.value > obs.extent /\ obs.out = obs.extent

\* ------------------------------------------------- Kalman convergence, C30
\* constant measurements of 0 to 1000 px, in tenths of a pixel (the filter
\* is linear in the measurement), fed at most MaxKalmanSteps times
Measurements == {500 * k : k \in 0..20}
MaxKalmanSteps == 6

KalmanCount == IF obs.src = "kalman" THEN obs.n ELSE 0

\* kalmanFilter(measurement, state.kalmanX), with the measurement of the call before it
KalmanStep(measurement) ==
    /\ obs.src = "kalman" => obs.measurement = measurement
    /\ KalmanCount < MaxKalmanSteps
    /\ kalmanX' = KalmanFilter(measurement, kalmanX)
    /\ obs' = [src |-> "kalman", n |-> KalmanCount + 1, measurement |-> measurement,
               prior |-> kalmanX.x] @@ NoObs
    /\ UNCHANGED <<envVars, pastVars, watchVars, now, hidden, setupVars, killVars, scrollVars, zoneVars,
                   connVars, gazeVars, animationFrameId, calVars, histVars,
                   filteredX, filteredY, lastRawX, lastRawY, lastTimestamp, velocityX, velocityY,
                   kalmanY, gazeBuffer>>

NextKalman == \E measurement \in Measurements : KalmanStep(measurement)

SpecKalman == InitWG /\ [][NextKalman]_vars

\* C30: fed one measurement M again and again from the initial state
\* (estimate 0, covariance 1000, q 8, r 20) the estimate never moves away
\* from M nor past it, and from the second step on it is within 1% of M.
KalmanConverges ==
    obs.src = "kalman" =>
        /\ obs.prior <= kalmanX.x /\ kalmanX.x <= obs.measurement
        /\ obs.n >= 2 => 100 * (obs.measurement - kalmanX.x) <= obs.measurement

KalmanSettled ==
    /\ obs.src = "kalman" /\ obs.n = 2 /\ obs.measurement = 10000
    /\ obs.prior < kalmanX.x /\ kalmanX.x < obs.measurement
    /\ 100 * (obs.measurement - obs.prior) > obs.measurement

\* ---------------------------------------------- the dispatched zone, C31
\* C31: a tick that dispatches an activation dispatches it for the zone its
\* own position resolves to.
FiresResolvedZone ==
    (obs.tick /\ obs.fired # NULL) => obs.fired = obs.resolved

\* ------------------------------------------------ suspended dwell, C32
\* C32: time during which nothing was evaluated is no dwell. A tick that is
\* evaluated DWELL_TIME or more after the evaluated tick before it (the
\* evaluation was suspended in between: tracking paused, tab hidden)
\* dispatches no activation.
NoDwellAcrossSuspension ==
    [][(obs'.tick /\ run.last # NoTime /\ now' - run.last >= DWELL_TIME) => obs'.fired = NULL]_vars

\* --------------------------------------------- collection completes, C33
\* C33: clicking every clickable target until it is confirmed reaches Done:
\* once setup() has run its timers (nothing will open another overlay) and
\* the overlay has no clickable target left (all are confirmed), the gate is
\* Done or finishCalibration() is scheduled.
CollectionReachesDone ==
    (setup = "done" /\ overlay /\ AllConfirmed) => (isCalibrated \/ finishTimers # {})

\* ------------------------------------- reset in the completion window, C34
\* C34: a reset between the last confirmation and the finishCalibration
\* callback is not undone by the callback: when the callback runs with the
\* confirmation count below CALIBRATION_POINTS (it was reset after the timer
\* was armed), the gate is not Done and the flag is not persisted afterwards.
ResetNotUndone ==
    [][(obs'.src = "finish" /\ calibrationClicks < CALIBRATION_POINTS /\ ~isCalibrated)
        => (~isCalibrated' /\ ~stored')]_vars

\* ------------------------------------------- repeated kill switch, C35
\* a second click on the Stop zone while one pause is running
StopAgain == Cardinality(resumeTimers) = 1 /\ ZoneClick("KILL_SWITCH")

NextWGKill ==
    \/ SetupTimerWG
    \/ \E d \in SampleSteps, xy \in StopXYs : GazeListener(d, xy[1], xy[2], NoConf)
    \/ StopClick
    \/ StopAgain
    \/ ResumeTimer
    \/ \E d \in IdleSteps : SetupIdle(d)

SpecWGKill == InitWGStored /\ [][NextWGKill]_vars

\* C35: tracking stays inactive for KILL_SWITCH_PAUSE after the most recent
\* KILL_SWITCH activation: while a resume timer armed by an activation is
\* still ahead, isActive is false.
PausedSinceLastStop ==
    isActive => \A rt \in resumeTimers : rt <= now

\* ------------------------------------------- dwell between samples, C36
\* the WebGazer variant looking at the top zone: samples with and without
\* enough confidence
NextWGDwell ==
    \/ SetupTimerWG
    \/ \E d \in SampleSteps, x \in StripXs, y \in TopYs, c \in Confidences : GazeListener(d, x, y, c)
    \/ \E pauseThrows \in BOOLEAN : WatchdogTick(pauseThrows)
    \/ \E d \in IdleSteps : SetupIdle(d)

SpecWGDwell == InitWGStored /\ [][NextWGDwell]_vars

\* C36: the dwell is evaluated whether or not accepted samples keep arriving:
\* while tracking is active and a zone is current, its dwell never runs to
\* twice DWELL_TIME without the zone having been dispatched (a dispatch
\* restarts the dwell clock).
DwellEvaluatedBetweenSamples ==
    (currentZone # NULL /\ isActive /\ isCalibrated) => now - dwellStartTime < 2 * DWELL_TIME

\* --------------------------------------- dwell restarts at a commit, C37
\* C37: the dwell progress is discarded on every zone change: a gaze-driven
\* activation of the current zone comes no earlier than DWELL_TIME after the
\* commit that made the zone current.
DwellRestartsAtCommit ==
    (obs.tick /\ obs.fired # NULL) =>
        (run.commitAt # NoTime /\ now - run.commitAt >= DWELL_TIME)

\* a zone is activated exactly DWELL_TIME after a switch from another zone
\* to it was committed
FiredAfterSwitch ==
    /\ obs.tick /\ obs.fired = "SCROLL_DOWN"
    /\ run.from = "SCROLL_UP"
    /\ now - run.commitAt = DWELL_TIME

\* ------------------------------------------------ failed recovery, C38
\* the setInterval callback of startWatchdog() on a frozen stream when both
\* webgazer.pause() and webgazer.end() throw: the outer catch logs with
\* console.error, the inner catch is empty, no timer is armed. notice is the
\* showNotification / updateStatusIndicator call of the step, "-" for none.
WatchdogTickFailed ==
    /\ variant = "webgazer"
    /\ watchdogAt # NoTime /\ watchdogAt <= now
    /\ watchdogAt' = watchdogAt + WATCHDOG_INTERVAL
    /\ Frozen(now)
    /\ wd' = [wd EXCEPT !.recoveries = @ + 1, !.helped = @ + 1]
    /\ obs' = [src |-> "watchdog", recover |-> TRUE, failed |-> TRUE,
                console |-> "error", notice |-> "-"] @@ NoObs
    /\ UNCHANGED <<envVars, pastVars, filterVars, now, hidden, setupVars, killVars, scrollVars, zoneVars,
                   connVars, gazeVars, animationFrameId, calVars, histVars,
                   isWebGazerReady, lastGazeTime, recoverTimers, initTimers, webgazer>>

NextWGRecover ==
    \/ SetupTimerWG
    \/ \E d \in SampleSteps, x \in CentreXs, y \in CentreYs : GazeListener(d, x, y, NoConf)
    \/ \E pauseThrows \in BOOLEAN : WatchdogTick(pauseThrows)
    \/ WatchdogTickFailed
    \/ RecoverTimer
    \/ InitTimer
    \/ \E d \in IdleSteps : Idle(d)

SpecWGRecover == InitWGStored /\ [][NextWGRecover]_vars

\* C38: a recovery that fails on both paths is reported: after the watchdog
\* tick the step has shown a status to the user or tracking is inactive.
FailedRecoveryReported ==
    (obs.src = "watchdog" /\ "failed" \in DOMAIN obs) => (obs.notice # "-" \/ ~isActive)

\* ------------------------------------------------------ reconnection, C39
\* setTimeout(connectToServer, RECONNECT_INTERVAL) firing while "new WebSocket" throws
ReconnectFails ==
    /\ \E t \in connectTimers :
         /\ t <= now
         /\ ConnectToServer(TRUE, connectTimers \ {t})
    /\ obs' = [NoObs EXCEPT !.src = "connect-failed"]
    /\ UNCHANGED <<envVars, pastVars, webgazerVars, now, hidden, setupVars, killVars, scrollVars, zoneVars,
                   isConnected, gazeVars, animationFrameId, calVars, histVars>>

\* the connection of the WebSocket variant: attempts that open, fail or throw
NextPyConn ==
    \/ SetupTimerPy
    \/ WsOpen
    \/ WsClose
    \/ ReconnectTimer
    \/ ReconnectFails
    \/ \E x \in StripXs, y \in TopYs : ServerGaze(x, y)
    \/ \E d \in FrameSteps : Animate(d)
    \/ \E d \in IdleSteps : Idle(d)

SpecPyConn == InitPyStored /\ [][NextPyConn]_vars

\* C39: a close of the socket and a connection attempt that throws both leave
\* a reconnect timer pending RECONNECT_INTERVAL later; a reconnect timer that
\* fires while no socket is open makes an attempt (a socket is connecting, or
\* the next timer is pending); at most one reconnect timer is pending; no
\* socket is created while one is open.
ReconnectsOneAtATime ==
    [][/\ Cardinality(connectTimers') <= 1
       /\ (wsState # "CLOSED" /\ wsState' = "CLOSED") => now + RECONNECT_INTERVAL \in connectTimers'
       /\ obs'.src = "connect-failed" => now + RECONNECT_INTERVAL \in connectTimers'
       /\ (wsState # "OPEN" /\ \E t \in connectTimers : t <= now /\ t \notin connectTimers')
            => (wsState' = "CONNECTING" \/ now + RECONNECT_INTERVAL \in connectTimers')
       /\ wsState = "OPEN" => wsState' # "CONNECTING"]_vars

\* a reconnection attempt (not the first attempt of setup()) has thrown and
\* the next one is scheduled
RetryScheduledAgain ==
    /\ obs.src = "connect-failed"
    /\ now >= RECONNECT_INTERVAL
    /\ connectTimers = {now + RECONNECT_INTERVAL}

\* ------------------------------------------- scroll timer bookkeeping, C40
\* popup.js with the mouse pressed and released on a scroll zone while the
\* gaze commits the Stop zone, dwells on it and leaves the strip, and the tab
\* is hidden and shown
HeldZones == {"SCROLL_UP"}

NextWGHold ==
    \/ SetupTimerWG
    \/ \E d \in SampleSteps, x \in AnyXs, y \in StopYs : GazeListener(d, x, y, NoConf)
    \/ \E pauseThrows \in BOOLEAN : WatchdogTick(pauseThrows)
    \/ \E zone \in HeldZones : MouseDown(zone)
    \/ MouseUp
    \/ ResumeTimer
    \/ Hide
    \/ Show
    \/ \E d \in IdleSteps : SetupIdle(d)

SpecWGHold == InitWGStored /\ [][NextWGHold]_vars

\* C40: at most one continuous-scroll interval timer exists, it is the one
\* scrollIntervalId refers to, and isScrolling is true exactly when
\* scrollIntervalId is set.
OneScrollTimer ==
    /\ scrollTimers <= 1
    /\ scrollIntervalId <=> scrollTimers = 1
    /\ isScrolling <=> scrollIntervalId

\* the mouse is pressed on a scroll zone while a continuous scroll is running
PressedWhileScrolling ==
    /\ obs.src = "mousedown"
    /\ isScrolling /\ scrollTimers = 1
    /\ currentZone # NULL

====
